---- MODULE Spec2Model ----
(***************************************************************************)
(* Model of the startup-builder record library (src/src/types/index.ts):   *)
(* the six Zod schemas, their type guards and their factories.             *)
(*                                                                         *)
(* JavaScript values are tagged tuples <<kind, payload>>; an object is a   *)
(* function from its own property names to values, so a property that is   *)
(* omitted differs from one that is present and holds undefined.           *)
(***************************************************************************)
EXTENDS Integers, Sequences, FiniteSets, TLC

(***************************************************************************)
(* JavaScript values                                                       *)
(***************************************************************************)
Undefined == <<"undefined">>
Null == <<"null">>
Bool(b) == <<"boolean", b>>
Str(s) == <<"string", s>>
Num(n) == <<"number", n>>
Arr(a) == <<"array", a>>
Obj(f) == <<"object", f>>
\* NaN: typeof gives 'number', Zod's parsed type is 'nan'.
NaN == <<"nan">>

Kind(v) == v[1]
Val(v) == v[2]

EmptyRecord == [k \in {} |-> Undefined]

\* obj[key]: a property the object does not own reads as undefined.
Get(f, key) == IF key \in DOMAIN f THEN f[key] ELSE Undefined

(***************************************************************************)
(* Zod schema constructors, as index.ts uses them                          *)
(***************************************************************************)
ZString(minLen) == <<"string", minLen>>          \* z.string(), z.string().min(n)
ZLiteral(s) == <<"literal", s>>                  \* z.literal(s)
ZNumber == <<"number", FALSE, 0, 0>>             \* z.number()
ZNumberRange(lo, hi) == <<"number", TRUE, lo, hi>> \* z.number().min(lo).max(hi)
ZEnum(options) == <<"enum", options>>            \* z.enum([...])
ZArray(elem, minLen) == <<"array", elem, minLen>> \* z.array(e), z.array(e).nonempty()
ZObject(shape) == <<"object", shape>>            \* z.object({...}), keys in order
ZOptional(inner) == <<"optional", inner>>        \* .optional()

Issue(path, code) == <<path, code>>
Fail(path, code) == [issues |-> <<Issue(path, code)>>, value |-> Undefined]
\* Mutant: a node that accepts its value and hands on nothing.
PassNothing(v) == [issues |-> <<>>, value |-> Undefined]
Pass(v) == [issues |-> <<>>, value |-> v]

(***************************************************************************)
(* Zod's parse of one value against one schema node: the issues found, in  *)
(* schema order, and the output value.  An object schema strips the keys   *)
(* it does not declare; every declared key is parsed even after an earlier *)
(* key failed; an array parses every element.                              *)
(***************************************************************************)
RECURSIVE Parse(_, _, _)
RECURSIVE ParseKeys(_, _, _, _)
RECURSIVE ParseItems(_, _, _, _)

\* Mutant: the object parse stops at the first key that fails.
RECURSIVE ParseKeysAbortEarly(_, _, _, _)
ParseKeysAbortEarly(shape, f, path, i) ==
  IF i > Len(shape) THEN [issues |-> <<>>, value |-> EmptyRecord]
  ELSE LET key == shape[i][1]
           one == Parse(shape[i][2], Get(f, key), Append(path, key))
       IN IF one.issues # <<>> THEN [issues |-> one.issues, value |-> EmptyRecord]
          ELSE LET rest == ParseKeysAbortEarly(shape, f, path, i + 1)
                   keep == key \in DOMAIN f \/ one.value # Undefined
               IN [issues |-> rest.issues,
                   value |-> IF keep THEN (key :> one.value) @@ rest.value
                                     ELSE rest.value]

\* Mutant: z.object(...).passthrough(), undeclared keys are kept.
RECURSIVE ParseKeysPassthrough(_, _, _, _)
ParseKeysPassthrough(shape, f, path, i) ==
  IF i > Len(shape) THEN [issues |-> <<>>, value |-> f]
  ELSE LET key == shape[i][1]
           one == Parse(shape[i][2], Get(f, key), Append(path, key))
           rest == ParseKeysPassthrough(shape, f, path, i + 1)
           keep == key \in DOMAIN f \/ one.value # Undefined
       IN [issues |-> one.issues \o rest.issues,
           value |-> IF keep THEN (key :> one.value) @@ rest.value
                             ELSE rest.value]

ParseKeys(shape, f, path, i) ==
  IF i > Len(shape) THEN [issues |-> <<>>, value |-> EmptyRecord]
  ELSE LET key == shape[i][1]
           one == Parse(shape[i][2], Get(f, key), Append(path, key))
           rest == ParseKeys(shape, f, path, i + 1)
           keep == key \in DOMAIN f \/ one.value # Undefined
       IN [issues |-> one.issues \o rest.issues,
           value |-> IF keep THEN (key :> one.value) @@ rest.value
                             ELSE rest.value]

ParseItems(elem, a, path, i) ==
  IF i > Len(a) THEN [issues |-> <<>>, value |-> <<>>]
  ELSE LET one == Parse(elem, a[i], Append(path, ToString(i - 1)))
           rest == ParseItems(elem, a, path, i + 1)
       IN [issues |-> one.issues \o rest.issues,
           value |-> <<one.value>> \o rest.value]

Parse(schema, v, path) ==
  CASE schema[1] = "string" ->
         IF Kind(v) # "string" THEN Fail(path, "invalid_type")
         ELSE IF Len(Val(v)) < schema[2] THEN Fail(path, "too_small")
         ELSE Pass(v)
    [] schema[1] = "literal" ->
         IF Kind(v) = "string" /\ Val(v) = schema[2] THEN Pass(v)
         ELSE Fail(path, "invalid_literal")
    [] schema[1] = "number" ->
         IF Kind(v) # "number" THEN Fail(path, "invalid_type")
         ELSE IF schema[2] /\ Val(v) < schema[3] THEN Fail(path, "too_small")
         ELSE IF schema[2] /\ Val(v) > schema[4] THEN Fail(path, "too_big")
         ELSE Pass(v)
    [] schema[1] = "enum" ->
         IF Kind(v) # "string" THEN Fail(path, "invalid_type")
         ELSE IF Val(v) \notin schema[2] THEN Fail(path, "invalid_enum_value")
         ELSE Pass(v)
    [] schema[1] = "array" ->
         IF Kind(v) # "array" THEN Fail(path, "invalid_type")
         ELSE LET items == ParseItems(schema[2], Val(v), path, 1)
                  short == IF Len(Val(v)) < schema[3]
                           THEN <<Issue(path, "too_small")>> ELSE <<>>
              IN [issues |-> short \o items.issues, value |-> Arr(items.value)]
    [] schema[1] = "object" ->
         IF Kind(v) # "object" THEN Fail(path, "invalid_type")
         ELSE LET keys == ParseKeys(schema[2], Val(v), path, 1)
              IN [issues |-> keys.issues, value |-> Obj(keys.value)]
    [] schema[1] = "optional" ->
         IF v = Undefined THEN Pass(Undefined)
         ELSE Parse(schema[2], v, path)

\* Mutant: schema.parse(v), which throws the error instead of returning it.
safeParseThrowing(schema, v) ==
  LET r == Parse(schema, v, <<>>)
  IN IF r.issues = <<>> THEN [success |-> TRUE, data |-> r.value]
     ELSE [thrown |-> r.issues]

\* Mutant: a failure that also hands out what was parsed so far.
safeParseWithPartial(schema, v) ==
  LET r == Parse(schema, v, <<>>)
  IN IF r.issues = <<>> THEN [success |-> TRUE, data |-> r.value]
     ELSE [success |-> FALSE, error |-> r.issues, data |-> r.value]

\* schema.safeParse(v): a success carrying the parsed data, or a failure
\* carrying the issues; it never throws.
safeParse(schema, v) ==
  LET r == Parse(schema, v, <<>>)
  IN IF r.issues = <<>> THEN [success |-> TRUE, data |-> r.value]
     ELSE [success |-> FALSE, error |-> r.issues]

(***************************************************************************)
(* The schemas of index.ts                                                 *)
(***************************************************************************)
MinEquity == 0
MaxEquity == 100

IdeaType == "https://schema.org.ai/Idea"
HypothesisType == "https://schema.org.ai/Hypothesis"
JTBDType == "https://schema.org.ai/JTBD"
LeanCanvasType == "https://schema.org.ai/LeanCanvas"
StoryBrandType == "https://schema.org.ai/StoryBrand"
FounderType == "https://schema.org.ai/Founder"

HypothesisStatus == {"untested", "testing", "validated", "invalidated"}
FounderRole == {"ceo", "cto", "coo", "cfo", "co-founder"}
VestingSchedule == {"monthly", "quarterly"}

\* Mutant: IdeaSchema.partial(), every key optional.
IdeaSchemaPartial ==
  ZObject(<< <<"$id", ZOptional(ZString(0))>>,
             <<"$type", ZOptional(ZLiteral(IdeaType))>>,
             <<"concept", ZOptional(ZString(1))>>,
             <<"problem", ZOptional(ZString(1))>>,
             <<"solution", ZOptional(ZString(1))>>,
             <<"differentiator", ZOptional(ZString(0))>> >>)

\* Mutant: concept declared z.string(), without .min(1).
IdeaSchemaNoMin ==
  ZObject(<< <<"$id", ZString(0)>>,
             <<"$type", ZLiteral(IdeaType)>>,
             <<"concept", ZString(0)>>,
             <<"problem", ZString(1)>>,
             <<"solution", ZString(1)>>,
             <<"differentiator", ZOptional(ZString(0))>> >>)

\* Mutant: differentiator declared without .optional().
IdeaSchemaDifferentiatorRequired ==
  ZObject(<< <<"$id", ZString(0)>>,
             <<"$type", ZLiteral(IdeaType)>>,
             <<"concept", ZString(1)>>,
             <<"problem", ZString(1)>>,
             <<"solution", ZString(1)>>,
             <<"differentiator", ZString(0)>> >>)

IdeaSchema ==
  ZObject(<< <<"$id", ZString(0)>>,
             <<"$type", ZLiteral(IdeaType)>>,
             <<"concept", ZString(1)>>,
             <<"problem", ZString(1)>>,
             <<"solution", ZString(1)>>,
             <<"differentiator", ZOptional(ZString(0))>> >>)

\* Mutant: evidence left out of the schema.
HypothesisSchemaNoEvidence ==
  ZObject(<< <<"$id", ZString(0)>>,
             <<"$type", ZLiteral(HypothesisType)>>,
             <<"assumption", ZString(0)>>,
             <<"metric", ZString(0)>>,
             <<"target", ZNumber>>,
             <<"status", ZEnum(HypothesisStatus)>> >>)

\* Mutant: target declared z.string() instead of z.number().
HypothesisSchemaTargetString ==
  ZObject(<< <<"$id", ZString(0)>>,
             <<"$type", ZLiteral(HypothesisType)>>,
             <<"assumption", ZString(0)>>,
             <<"metric", ZString(0)>>,
             <<"target", ZString(0)>>,
             <<"status", ZEnum(HypothesisStatus)>>,
             <<"evidence", ZOptional(ZArray(ZString(0), 0))>> >>)

\* Mutant: status declared z.string() instead of the enum.
HypothesisSchemaStatusString ==
  ZObject(<< <<"$id", ZString(0)>>,
             <<"$type", ZLiteral(HypothesisType)>>,
             <<"assumption", ZString(0)>>,
             <<"metric", ZString(0)>>,
             <<"target", ZNumber>>,
             <<"status", ZString(0)>>,
             <<"evidence", ZOptional(ZArray(ZString(0), 0))>> >>)

HypothesisSchema ==
  ZObject(<< <<"$id", ZString(0)>>,
             <<"$type", ZLiteral(HypothesisType)>>,
             <<"assumption", ZString(0)>>,
             <<"metric", ZString(0)>>,
             <<"target", ZNumber>>,
             <<"status", ZEnum(HypothesisStatus)>>,
             <<"evidence", ZOptional(ZArray(ZString(0), 0))>> >>)

\* Mutant: $type declared z.string() instead of the literal.
JTBDSchemaStringTag ==
  ZObject(<< <<"$id", ZString(0)>>,
             <<"$type", ZString(0)>>,
             <<"job", ZString(1)>>,
             <<"context", ZString(1)>>,
             <<"outcome", ZString(1)>>,
             <<"constraints", ZOptional(ZArray(ZString(0), 0))>>,
             <<"currentSolutions", ZOptional(ZArray(ZString(0), 0))>> >>)

\* Mutant: currentSolutions declared .nonempty().
JTBDSchemaNonEmptySolutions ==
  ZObject(<< <<"$id", ZString(0)>>,
             <<"$type", ZLiteral(JTBDType)>>,
             <<"job", ZString(1)>>,
             <<"context", ZString(1)>>,
             <<"outcome", ZString(1)>>,
             <<"constraints", ZOptional(ZArray(ZString(0), 0))>>,
             <<"currentSolutions", ZOptional(ZArray(ZString(0), 1))>> >>)

\* Mutant: constraints left out of the schema.
JTBDSchemaNoConstraints ==
  ZObject(<< <<"$id", ZString(0)>>,
             <<"$type", ZLiteral(JTBDType)>>,
             <<"job", ZString(1)>>,
             <<"context", ZString(1)>>,
             <<"outcome", ZString(1)>>,
             <<"currentSolutions", ZOptional(ZArray(ZString(0), 0))>> >>)

JTBDSchema ==
  ZObject(<< <<"$id", ZString(0)>>,
             <<"$type", ZLiteral(JTBDType)>>,
             <<"job", ZString(1)>>,
             <<"context", ZString(1)>>,
             <<"outcome", ZString(1)>>,
             <<"constraints", ZOptional(ZArray(ZString(0), 0))>>,
             <<"currentSolutions", ZOptional(ZArray(ZString(0), 0))>> >>)

\* Mutant: customerSegments declared without .nonempty().
LeanCanvasSchemaMayBeEmpty ==
  ZObject(<< <<"$id", ZString(0)>>,
             <<"$type", ZLiteral(LeanCanvasType)>>,
             <<"problem", ZArray(ZString(0), 1)>>,
             <<"solution", ZArray(ZString(0), 1)>>,
             <<"uniqueValue", ZString(1)>>,
             <<"unfairAdvantage", ZOptional(ZString(0))>>,
             <<"customerSegments", ZArray(ZString(0), 0)>>,
             <<"channels", ZArray(ZString(0), 1)>>,
             <<"revenueStreams", ZArray(ZString(0), 1)>>,
             <<"costStructure", ZArray(ZString(0), 1)>>,
             <<"keyMetrics", ZArray(ZString(0), 1)>> >>)

LeanCanvasSchema ==
  ZObject(<< <<"$id", ZString(0)>>,
             <<"$type", ZLiteral(LeanCanvasType)>>,
             <<"problem", ZArray(ZString(0), 1)>>,
             <<"solution", ZArray(ZString(0), 1)>>,
             <<"uniqueValue", ZString(1)>>,
             <<"unfairAdvantage", ZOptional(ZString(0))>>,
             <<"customerSegments", ZArray(ZString(0), 1)>>,
             <<"channels", ZArray(ZString(0), 1)>>,
             <<"revenueStreams", ZArray(ZString(0), 1)>>,
             <<"costStructure", ZArray(ZString(0), 1)>>,
             <<"keyMetrics", ZArray(ZString(0), 1)>> >>)

\* Mutant: guide declared z.string(), without .min(1).
StoryBrandSchemaGuideNoMin ==
  ZObject(<< <<"$id", ZString(0)>>,
             <<"$type", ZLiteral(StoryBrandType)>>,
             <<"character", ZString(1)>>,
             <<"problem", ZString(1)>>,
             <<"guide", ZString(0)>>,
             <<"plan", ZArray(ZString(0), 1)>>,
             <<"callToAction", ZString(1)>>,
             <<"success", ZString(1)>>,
             <<"failure", ZString(1)>> >>)

StoryBrandSchema ==
  ZObject(<< <<"$id", ZString(0)>>,
             <<"$type", ZLiteral(StoryBrandType)>>,
             <<"character", ZString(1)>>,
             <<"problem", ZString(1)>>,
             <<"guide", ZString(1)>>,
             <<"plan", ZArray(ZString(0), 1)>>,
             <<"callToAction", ZString(1)>>,
             <<"success", ZString(1)>>,
             <<"failure", ZString(1)>> >>)

\* Mutant: equity declared with the upper end excluded.
FounderSchemaExclusiveMax ==
  ZObject(<< <<"$id", ZString(0)>>,
             <<"$type", ZLiteral(FounderType)>>,
             <<"userId", ZString(0)>>,
             <<"name", ZString(0)>>,
             <<"role", ZEnum(FounderRole)>>,
             <<"equity", ZNumberRange(MinEquity, MaxEquity - 1)>>,
             <<"vesting", ZOptional(ZObject(<< <<"cliff", ZNumber>>,
                                               <<"period", ZNumber>>,
                                               <<"schedule", ZEnum(VestingSchedule)>> >>))>> >>)

\* Mutant: role declared z.string() instead of the enum.
FounderSchemaRoleString ==
  ZObject(<< <<"$id", ZString(0)>>,
             <<"$type", ZLiteral(FounderType)>>,
             <<"userId", ZString(0)>>,
             <<"name", ZString(0)>>,
             <<"role", ZString(0)>>,
             <<"equity", ZNumberRange(MinEquity, MaxEquity)>>,
             <<"vesting", ZOptional(ZObject(<< <<"cliff", ZNumber>>,
                                               <<"period", ZNumber>>,
                                               <<"schedule", ZEnum(VestingSchedule)>> >>))>> >>)

\* Mutant: vesting declared z.object({}), its fields unchecked.
FounderSchemaShallowVesting ==
  ZObject(<< <<"$id", ZString(0)>>,
             <<"$type", ZLiteral(FounderType)>>,
             <<"userId", ZString(0)>>,
             <<"name", ZString(0)>>,
             <<"role", ZEnum(FounderRole)>>,
             <<"equity", ZNumberRange(MinEquity, MaxEquity)>>,
             <<"vesting", ZOptional(ZObject(<<>>))>> >>)

FounderSchema ==
  ZObject(<< <<"$id", ZString(0)>>,
             <<"$type", ZLiteral(FounderType)>>,
             <<"userId", ZString(0)>>,
             <<"name", ZString(0)>>,
             <<"role", ZEnum(FounderRole)>>,
             <<"equity", ZNumberRange(MinEquity, MaxEquity)>>,
             <<"vesting", ZOptional(ZObject(<< <<"cliff", ZNumber>>,
                                               <<"period", ZNumber>>,
                                               <<"schedule", ZEnum(VestingSchedule)>> >>))>> >>)

(***************************************************************************)
(* Type guards: XSchema.safeParse(obj).success                             *)
(***************************************************************************)
isIdea(obj) == safeParse(IdeaSchema, obj).success
isHypothesis(obj) == safeParse(HypothesisSchema, obj).success
isJTBD(obj) == safeParse(JTBDSchema, obj).success
isLeanCanvas(obj) == safeParse(LeanCanvasSchema, obj).success
\* Mutant: the guard copied from isLeanCanvas with its schema left in place.
isStoryBrandCopied(obj) == safeParse(LeanCanvasSchema, obj).success
isStoryBrand(obj) == safeParse(StoryBrandSchema, obj).success
\* Mutant: the guard looks at the tag alone.
isFounderByTag(obj) ==
  Kind(obj) = "object" /\ Get(Val(obj), "$type") = Str(FounderType)
isFounder(obj) == safeParse(FounderSchema, obj).success

(***************************************************************************)
(* Factories: { ...input, $type: tag }.  The later $type wins over one     *)
(* spread from the input; the input itself is not written.                 *)
(***************************************************************************)
Spread(input, type) == Obj(("$type" :> Str(type)) @@ Val(input))

createIdea(input) == Spread(input, IdeaType)
\* Mutant: the factory keeps a $type the input already carries.
createHypothesisKeepTag(input) ==
  Obj(Val(input) @@ ("$type" :> Str(HypothesisType)))
createHypothesis(input) == Spread(input, HypothesisType)
createJTBD(input) == Spread(input, JTBDType)
\* Mutant: the factory returns its input's properties and stamps no tag.
createLeanCanvasNoTag(input) == Obj(Val(input))
createLeanCanvas(input) == Spread(input, LeanCanvasType)
createStoryBrand(input) == Spread(input, StoryBrandType)
\* Mutant: { $type: tag, ...input }, the input's own $type wins.
createFounderTagFirst(input) == Obj(Val(input) @@ ("$type" :> Str(FounderType)))
createFounder(input) == Spread(input, FounderType)

(***************************************************************************)
(* Dispatch on the entity a caller names                                   *)
(***************************************************************************)
Entities == {"Idea", "Hypothesis", "JTBD", "LeanCanvas", "StoryBrand", "Founder"}

TypeOf(X) ==
  CASE X = "Idea" -> IdeaType
    [] X = "Hypothesis" -> HypothesisType
    [] X = "JTBD" -> JTBDType
    [] X = "LeanCanvas" -> LeanCanvasType
    [] X = "StoryBrand" -> StoryBrandType
    [] X = "Founder" -> FounderType

SchemaOf(X) ==
  CASE X = "Idea" -> IdeaSchema
    [] X = "Hypothesis" -> HypothesisSchema
    [] X = "JTBD" -> JTBDSchema
    [] X = "LeanCanvas" -> LeanCanvasSchema
    [] X = "StoryBrand" -> StoryBrandSchema
    [] X = "Founder" -> FounderSchema

isX(X, obj) ==
  CASE X = "Idea" -> isIdea(obj)
    [] X = "Hypothesis" -> isHypothesis(obj)
    [] X = "JTBD" -> isJTBD(obj)
    [] X = "LeanCanvas" -> isLeanCanvas(obj)
    [] X = "StoryBrand" -> isStoryBrand(obj)
    [] X = "Founder" -> isFounder(obj)

createX(X, input) ==
  CASE X = "Idea" -> createIdea(input)
    [] X = "Hypothesis" -> createHypothesis(input)
    [] X = "JTBD" -> createJTBD(input)
    [] X = "LeanCanvas" -> createLeanCanvas(input)
    [] X = "StoryBrand" -> createStoryBrand(input)
    [] X = "Founder" -> createFounder(input)

(***************************************************************************)
(* The values callers pass                                                 *)
(***************************************************************************)
MaxLen == 2
NumMargin == 1

\* The sequences over S of length at most n.
SeqsUpTo(S, n) == UNION {[1..k -> S] : k \in 0..n}

ElemVals == {Str("x"), Num(1)}

\* Values of every kind.
CommonVals ==
  {Undefined, Null, Bool(TRUE), Str(""), Str("x"), Num(1), Arr(<<>>), Obj(EmptyRecord)}

ValidVesting == [cliff |-> Num(12), period |-> Num(48), schedule |-> Str("monthly")]

ArrayKeys ==
  {"evidence", "constraints", "currentSolutions", "plan", "problem", "solution",
   "customerSegments", "channels", "revenueStreams", "costStructure", "keyMetrics"}

\* What a caller may put under one property: any common value, and the
\* strings, numbers, arrays and objects that matter to the property of
\* that name.
ValsFor(key) ==
  CommonVals \cup
  CASE key = "$type" ->
         {Str(TypeOf(Y)) : Y \in Entities} \cup {Str("https://schema.org.ai/Wrong")}
    [] key = "status" -> {Str(s) : s \in HypothesisStatus \cup {"invalid"}}
    [] key = "role" -> {Str(s) : s \in FounderRole \cup {"intern"}}
    [] key \in {"equity", "target"} ->
         {Num(n) : n \in (MinEquity - NumMargin)..(MinEquity + NumMargin)}
         \cup {Num(n) : n \in (MaxEquity - NumMargin)..(MaxEquity + NumMargin)}
         \cup {NaN, Str("forty"), Str("40"), Str("not a number")}
    [] key \in ArrayKeys -> {Arr(a) : a \in SeqsUpTo(ElemVals, MaxLen)}
    [] key = "vesting" ->
         {Obj(ValidVesting)}
         \cup {Obj([ValidVesting EXCEPT !.schedule = Str(s)]) : s \in {"quarterly", "weekly"}}
         \cup {Obj([ValidVesting EXCEPT !.cliff = v]) : v \in {Undefined, Str("forty"), Str("12")}}
         \cup {Obj([ValidVesting EXCEPT !.period = v]) : v \in {Undefined, Str("forty")}}
         \cup {Obj([ValidVesting EXCEPT !.cliff = Str("forty"), !.schedule = Str("weekly")])}
         \cup {Obj(("extra" :> Num(1)) @@ ValidVesting)}
         \cup {Obj([k \in {"period", "schedule"} |-> ValidVesting[k]])}
    [] OTHER -> {}

\* A record of each entity with every declared property set and valid.
ValidRecord(X) ==
  ("$id" :> Str("id")) @@ ("$type" :> Str(TypeOf(X))) @@
  CASE X = "Idea" ->
         [concept |-> Str("c"), problem |-> Str("p"), solution |-> Str("s"),
          differentiator |-> Str("d")]
    [] X = "Hypothesis" ->
         [assumption |-> Str("a"), metric |-> Str("m"), target |-> Num(40),
          status |-> Str("untested"), evidence |-> Arr(<<Str("e")>>)]
    [] X = "JTBD" ->
         [job |-> Str("j"), context |-> Str("c"), outcome |-> Str("o"),
          constraints |-> Arr(<<Str("k")>>), currentSolutions |-> Arr(<<>>)]
    [] X = "LeanCanvas" ->
         [problem |-> Arr(<<Str("p")>>), solution |-> Arr(<<Str("s")>>),
          uniqueValue |-> Str("u"), unfairAdvantage |-> Str("a"),
          customerSegments |-> Arr(<<Str("c")>>), channels |-> Arr(<<Str("h")>>),
          revenueStreams |-> Arr(<<Str("r")>>), costStructure |-> Arr(<<Str("o")>>),
          keyMetrics |-> Arr(<<Str("k")>>)]
    [] X = "StoryBrand" ->
         [character |-> Str("c"), problem |-> Str("p"), guide |-> Str("g"),
          plan |-> Arr(<<Str("1"), Str("2")>>), callToAction |-> Str("a"),
          success |-> Str("s"), failure |-> Str("f")]
    [] X = "Founder" ->
         [userId |-> Str("u"), name |-> Str("n"), role |-> Str("ceo"),
          equity |-> Num(50), vesting |-> Obj(ValidVesting)]

\* A property no schema declares.
ExtraKey == "extra"

\* f with the property key set to v (added when f does not own it).
With(f, key, v) == (key :> v) @@ f
\* f with the property key deleted.
Without(f, key) == [k \in DOMAIN f \ {key} |-> f[k]]

\* The records that differ from a valid record in at most one property,
\* which is set to any value, or deleted.
RecordsNear(X) ==
  LET base == ValidRecord(X)
  IN {base}
     \cup {With(base, key, v) : key \in DOMAIN base \cup {ExtraKey}, v \in CommonVals}
     \cup UNION {{With(base, key, v) : v \in ValsFor(key)} : key \in DOMAIN base}
     \cup {Without(base, key) : key \in DOMAIN base}

\* The records that differ from a valid record in two properties, both null.
RecordsTwoOff(X) ==
  LET base == ValidRecord(X)
  IN {With(With(base, k1, Null), k2, Null) :
        k1 \in DOMAIN base, k2 \in DOMAIN base \ {"$id"}} \ RecordsNear(X)

Inputs ==
  {Undefined, Null, Bool(FALSE), Num(7), NaN, Str("idea"), Arr(<<>>), Obj(EmptyRecord),
   Obj([invalid |-> Str("data")])}
  \cup {Obj(f) : f \in UNION {RecordsNear(X) \cup RecordsTwoOff(X) : X \in Entities}}

(***************************************************************************)
(* The caller: it holds one value and calls the library on it, one call at *)
(* a time.  The library keeps no state of its own; op, ent and result      *)
(* record the call in progress and what it returned.                       *)
(***************************************************************************)
VARIABLES input, op, ent, result
vars == <<input, op, ent, result>>

Init ==
  /\ input \in Inputs
  /\ op = "none"
  /\ ent = "none"
  /\ result = Undefined

\* Mutant: the validator writes the parsed data back into the caller's value.
SafeParseCallInPlace(X) ==
  /\ op = "none"
  /\ op' = "safeParse"
  /\ ent' = X
  /\ result' = safeParse(SchemaOf(X), input)
  /\ input' = IF result'.success THEN result'.data ELSE input

\* XSchema.safeParse(input)
SafeParseCall(X) ==
  /\ op = "none"
  /\ op' = "safeParse"
  /\ ent' = X
  /\ result' = safeParse(SchemaOf(X), input)
  /\ UNCHANGED input

\* isX(input)
GuardCall(X) ==
  /\ op = "none"
  /\ op' = "guard"
  /\ ent' = X
  /\ result' = isX(X, input)
  /\ UNCHANGED input

\* Mutant: Object.assign(input, { $type: tag }), the input itself is stamped.
CreateCallAssigning(X) ==
  /\ op = "none"
  /\ Kind(input) = "object"
  /\ op' = "create"
  /\ ent' = X
  /\ result' = createX(X, input)
  /\ input' = result'

\* createX(input): the signature admits records only.
CreateCall(X) ==
  /\ op = "none"
  /\ Kind(input) = "object"
  /\ op' = "create"
  /\ ent' = X
  /\ result' = createX(X, input)
  /\ UNCHANGED input

\* The caller is done with the result and keeps its value for the next call.
Discard ==
  /\ op # "none"
  /\ op' = "none"
  /\ ent' = "none"
  /\ result' = Undefined
  /\ UNCHANGED input

\* The caller goes on with the record a factory returned.
UseCreated ==
  /\ op = "create"
  /\ input' = result
  /\ op' = "none"
  /\ ent' = "none"
  /\ result' = Undefined

Next ==
  \/ \E X \in Entities : SafeParseCall(X)
  \/ \E X \in Entities : GuardCall(X)
  \/ \E X \in Entities : CreateCall(X)
  \/ Discard
  \/ UseCreated

Spec == Init /\ [][Next]_vars

(***************************************************************************)
(* The data model's rules, stated field by field and without Zod: what a   *)
(* record of each entity must satisfy besides carrying the entity's tag.   *)
(***************************************************************************)
IsStr(v) == Kind(v) = "string"
NonEmptyStr(v) == IsStr(v) /\ Val(v) # ""
IsNum(v) == Kind(v) = "number"
OneOf(v, options) == IsStr(v) /\ Val(v) \in options
StrSeq(v) == Kind(v) = "array" /\ \A i \in 1..Len(Val(v)) : IsStr(Val(v)[i])
NonEmptyStrSeq(v) == StrSeq(v) /\ Len(Val(v)) >= 1
VestingOk(v) ==
  /\ Kind(v) = "object"
  /\ IsNum(Get(Val(v), "cliff"))
  /\ IsNum(Get(Val(v), "period"))
  /\ OneOf(Get(Val(v), "schedule"), VestingSchedule)
Absent(v) == v = Undefined

FieldRules(X, f) ==
  /\ IsStr(Get(f, "$id"))
  /\ CASE X = "Idea" ->
            /\ \A k \in {"concept", "problem", "solution"} : NonEmptyStr(Get(f, k))
            /\ Absent(Get(f, "differentiator")) \/ IsStr(Get(f, "differentiator"))
       [] X = "Hypothesis" ->
            /\ \A k \in {"assumption", "metric"} : IsStr(Get(f, k))
            /\ IsNum(Get(f, "target"))
            /\ OneOf(Get(f, "status"), HypothesisStatus)
            /\ Absent(Get(f, "evidence")) \/ StrSeq(Get(f, "evidence"))
       [] X = "JTBD" ->
            /\ \A k \in {"job", "context", "outcome"} : NonEmptyStr(Get(f, k))
            /\ \A k \in {"constraints", "currentSolutions"} :
                 Absent(Get(f, k)) \/ StrSeq(Get(f, k))
       [] X = "LeanCanvas" ->
            /\ \A k \in {"problem", "solution", "customerSegments", "channels",
                         "revenueStreams", "costStructure", "keyMetrics"} :
                 NonEmptyStrSeq(Get(f, k))
            /\ NonEmptyStr(Get(f, "uniqueValue"))
            /\ Absent(Get(f, "unfairAdvantage")) \/ IsStr(Get(f, "unfairAdvantage"))
       [] X = "StoryBrand" ->
            /\ \A k \in {"character", "problem", "guide", "callToAction",
                         "success", "failure"} : NonEmptyStr(Get(f, k))
            /\ NonEmptyStrSeq(Get(f, "plan"))
       [] X = "Founder" ->
            /\ \A k \in {"userId", "name"} : IsStr(Get(f, k))
            /\ OneOf(Get(f, "role"), FounderRole)
            /\ IsNum(Get(f, "equity"))
            /\ Val(Get(f, "equity")) >= 0 /\ Val(Get(f, "equity")) <= 100
            /\ Absent(Get(f, "vesting")) \/ VestingOk(Get(f, "vesting"))

HasTag(X, f) == Get(f, "$type") = Str(TypeOf(X))

IsRecord(v) == Kind(v) = "object"

(***************************************************************************)
(* C1: for every input, isX(v) is true exactly when XSchema.safeParse(v)   *)
(* reports success.                                                        *)
(***************************************************************************)
C1_GuardIffValidator ==
  op = "guard" => (result = safeParse(SchemaOf(ent), input).success)

C1_Witness ==
  /\ op = "guard" /\ ent = "Founder" /\ result = TRUE

(***************************************************************************)
(* C2: every guard returns false, and returns, on null, undefined and {}.  *)
(***************************************************************************)
C2_GuardRejectsNullish ==
  (op = "guard" /\ input \in {Null, Undefined, Obj(EmptyRecord)})
    => (result \in BOOLEAN /\ result = FALSE)

C2_Witness ==
  /\ op = "guard" /\ ent = "Idea" /\ input = Obj(EmptyRecord) /\ result = FALSE

(***************************************************************************)
(* C3: a record that is valid apart from $type validates exactly when its  *)
(* $type equals the entity's tag; a missing or different $type fails.      *)
(***************************************************************************)
C3_TagRequired ==
  (op = "safeParse" /\ IsRecord(input))
    => /\ result.success => HasTag(ent, Val(input))
       /\ FieldRules(ent, Val(input)) => (result.success <=> HasTag(ent, Val(input)))

C3_Witness ==
  /\ op = "safeParse" /\ IsRecord(input) /\ FieldRules(ent, Val(input))
  /\ "$type" \notin DOMAIN Val(input)
  /\ ~result.success

(***************************************************************************)
(* C4: no value is accepted by the guards of two different entities; a     *)
(* valid LeanCanvas is rejected by isStoryBrand.                           *)
(***************************************************************************)
C4_CrossEntityRejection ==
  op = "guard" =>
    /\ result = TRUE => \A Y \in Entities \ {ent} : ~isX(Y, input)
    /\ (\E Y \in Entities \ {ent} : isX(Y, input)) => result = FALSE

C4_Witness ==
  /\ op = "guard" /\ ent = "StoryBrand"
  /\ input = Obj(ValidRecord("LeanCanvas"))
  /\ result = FALSE

(***************************************************************************)
(* C5: a factory's result carries the entity's tag, which is               *)
(* "https://schema.org.ai/" followed by the entity's name, also when the   *)
(* input carries another $type.                                            *)
(***************************************************************************)
C5_FactoryStampsTag ==
  op = "create" =>
    /\ Get(Val(result), "$type") = Str(TypeOf(ent))
    /\ TypeOf(ent) = "https://schema.org.ai/" \o ent

C5_Witness ==
  /\ op = "create"
  /\ "$type" \in DOMAIN Val(input)
  /\ Val(input)["$type"] = Str(TypeOf("Idea"))
  /\ ent = "Founder"
  /\ Val(result)["$type"] = Str(FounderType)

(***************************************************************************)
(* C6: factory round trip: when the fields given to createX satisfy X's    *)
(* field rules, isX accepts the record createX returns.                    *)
(***************************************************************************)
C6_FactoryRoundTrip ==
  (op = "create" /\ FieldRules(ent, Val(input))) => isX(ent, result)

C6_Witness ==
  /\ op = "create" /\ ent = "LeanCanvas"
  /\ FieldRules(ent, Val(input))
  /\ "$type" \notin DOMAIN Val(input)
  /\ isX(ent, result)

(***************************************************************************)
(* C7: a factory validates nothing: given fields that violate X's rules it *)
(* still returns a record, with every field other than $type as given, and *)
(* isX rejects that record.                                                *)
(***************************************************************************)
C7_FactoryIsNoGate ==
  (op = "create" /\ ~FieldRules(ent, Val(input))) =>
    /\ IsRecord(result)
    /\ \A k \in DOMAIN Val(input) \ {"$type"} :
         k \in DOMAIN Val(result) /\ Val(result)[k] = Val(input)[k]
    /\ ~isX(ent, result)

C7_Witness ==
  /\ op = "create" /\ ent = "Founder"
  /\ Get(Val(input), "equity") = Num(101)
  /\ Get(Val(result), "equity") = Num(101)
  /\ ~isX(ent, result)

(***************************************************************************)
(* C8: the string fields every record must carry, and those among them     *)
(* that the schemas declare with a minimum length of one.                  *)
(***************************************************************************)
RequiredStringKeys(X) ==
  {"$id"} \cup
  CASE X = "Idea" -> {"concept", "problem", "solution"}
    [] X = "Hypothesis" -> {"assumption", "metric"}
    [] X = "JTBD" -> {"job", "context", "outcome"}
    [] X = "LeanCanvas" -> {"uniqueValue"}
    [] X = "StoryBrand" ->
         {"character", "problem", "guide", "callToAction", "success", "failure"}
    [] X = "Founder" -> {"userId", "name"}

NonEmptyStringKeys(X) ==
  CASE X = "Idea" -> {"concept", "problem", "solution"}
    [] X = "Hypothesis" -> {}
    [] X = "JTBD" -> {"job", "context", "outcome"}
    [] X = "LeanCanvas" -> {"uniqueValue"}
    [] X = "StoryBrand" ->
         {"character", "problem", "guide", "callToAction", "success", "failure"}
    [] X = "Founder" -> {}

\* f is a valid record of X but for the property k, which holds v.
ValidBut(X, f, k, v) ==
  /\ Get(f, k) = v
  /\ HasTag(X, With(f, k, Str("x")))
  /\ FieldRules(X, With(f, k, Str("x")))

\* C8 as claimed: a valid record with any one required string field set to
\* the empty string fails validation.
C8_EveryRequiredStringRejectsEmpty ==
  (op = "safeParse" /\ IsRecord(input)) =>
    \A k \in RequiredStringKeys(ent) :
      ValidBut(ent, Val(input), k, Str("")) => ~result.success

\* C8 as amended: the empty string fails validation in the fields declared
\* non-empty (Idea.concept/problem/solution, JTBD.job/context/outcome,
\* LeanCanvas.uniqueValue, the six StoryBrand strings), in any record; in
\* $id, Hypothesis.assumption, Hypothesis.metric, Founder.userId and
\* Founder.name it is accepted, and the otherwise valid record validates.
C8_NonEmptyStringsRejectEmpty ==
  (op = "safeParse" /\ IsRecord(input)) =>
    /\ \A k \in NonEmptyStringKeys(ent) :
         Get(Val(input), k) = Str("") => ~result.success
    /\ \A k \in RequiredStringKeys(ent) \ NonEmptyStringKeys(ent) :
         ValidBut(ent, Val(input), k, Str("")) => result.success

C8_Witness ==
  /\ op = "safeParse" /\ ent = "Idea" /\ IsRecord(input)
  /\ ValidBut(ent, Val(input), "concept", Str(""))
  /\ ~result.success

(***************************************************************************)
(* C9: a LeanCanvas with any of its seven sequences empty, and a           *)
(* StoryBrand with an empty plan, fail validation.                         *)
(***************************************************************************)
RequiredSeqKeys(X) ==
  CASE X = "LeanCanvas" ->
         {"problem", "solution", "customerSegments", "channels",
          "revenueStreams", "costStructure", "keyMetrics"}
    [] X = "StoryBrand" -> {"plan"}
    [] OTHER -> {}

C9_RequiredSequencesRejectEmpty ==
  (op = "safeParse" /\ IsRecord(input)) =>
    \A k \in RequiredSeqKeys(ent) :
      Get(Val(input), k) = Arr(<<>>) => ~result.success

C9_Witness ==
  /\ op = "safeParse" /\ ent = "LeanCanvas"
  /\ input = Obj(With(ValidRecord("LeanCanvas"), "customerSegments", Arr(<<>>)))
  /\ ~result.success

(***************************************************************************)
(* C10: a sequence-of-strings field, required or optional, that is present *)
(* (not undefined) and is not a sequence, or holds a non-string element at *)
(* any position, fails validation.                                         *)
(***************************************************************************)
SeqKeys(X) ==
  RequiredSeqKeys(X) \cup
  CASE X = "Hypothesis" -> {"evidence"}
    [] X = "JTBD" -> {"constraints", "currentSolutions"}
    [] OTHER -> {}

C10_SequencesHoldStringsOnly ==
  (op = "safeParse" /\ IsRecord(input)) =>
    \A k \in SeqKeys(ent) :
      LET v == Get(Val(input), k)
      IN (v # Undefined /\ ~StrSeq(v)) => ~result.success

C10_Witness ==
  /\ op = "safeParse" /\ ent = "Hypothesis"
  /\ input = Obj(With(ValidRecord("Hypothesis"), "evidence", Arr(<<Str("x"), Num(1)>>)))
  /\ ~result.success

(***************************************************************************)
(* The data model's rule for one declared property of an entity, and a     *)
(* record that meets every rule but, possibly, the one for property k.     *)
(***************************************************************************)
DeclaredKeys(X) ==
  {"$id", "$type"} \cup
  CASE X = "Idea" -> {"concept", "problem", "solution", "differentiator"}
    [] X = "Hypothesis" -> {"assumption", "metric", "target", "status", "evidence"}
    [] X = "JTBD" -> {"job", "context", "outcome", "constraints", "currentSolutions"}
    [] X = "LeanCanvas" ->
         {"problem", "solution", "uniqueValue", "unfairAdvantage", "customerSegments",
          "channels", "revenueStreams", "costStructure", "keyMetrics"}
    [] X = "StoryBrand" ->
         {"character", "problem", "guide", "plan", "callToAction", "success", "failure"}
    [] X = "Founder" -> {"userId", "name", "role", "equity", "vesting"}

OptionalKeys(X) ==
  CASE X = "Idea" -> {"differentiator"}
    [] X = "Hypothesis" -> {"evidence"}
    [] X = "JTBD" -> {"constraints", "currentSolutions"}
    [] X = "LeanCanvas" -> {"unfairAdvantage"}
    [] X = "StoryBrand" -> {}
    [] X = "Founder" -> {"vesting"}

\* The rule a value must meet under property k when it is present.
PresentOk(X, k, v) ==
  CASE k = "$id" -> IsStr(v)
    [] k = "$type" -> v = Str("https://schema.org.ai/" \o X)
    [] k \in NonEmptyStringKeys(X) -> NonEmptyStr(v)
    [] k \in RequiredStringKeys(X) \ NonEmptyStringKeys(X) -> IsStr(v)
    [] k \in {"differentiator", "unfairAdvantage"} -> IsStr(v)
    [] k \in RequiredSeqKeys(X) -> NonEmptyStrSeq(v)
    [] k \in SeqKeys(X) \ RequiredSeqKeys(X) -> StrSeq(v)
    [] k = "target" -> IsNum(v)
    [] k = "status" -> OneOf(v, {"untested", "testing", "validated", "invalidated"})
    [] k = "role" -> OneOf(v, {"ceo", "cto", "coo", "cfo", "co-founder"})
    [] k = "equity" -> IsNum(v) /\ Val(v) >= 0 /\ Val(v) <= 100
    [] k = "vesting" ->
         /\ Kind(v) = "object"
         /\ IsNum(Get(Val(v), "cliff"))
         /\ IsNum(Get(Val(v), "period"))
         /\ OneOf(Get(Val(v), "schedule"), {"monthly", "quarterly"})

KeyOk(X, k, v) ==
  IF k \in OptionalKeys(X) THEN Absent(v) \/ PresentOk(X, k, v)
  ELSE PresentOk(X, k, v)

ValidExcept(X, f, k) ==
  \A j \in DeclaredKeys(X) \ {k} : KeyOk(X, j, Get(f, j))

(***************************************************************************)
(* C11: an otherwise valid Founder with an integer equity e validates      *)
(* exactly when 0 <= e <= 100; 0 and 100 are accepted, -1 and 101 not.     *)
(***************************************************************************)
C11_EquityClosedRange ==
  (/\ op = "safeParse" /\ ent = "Founder" /\ IsRecord(input)
   /\ ValidExcept("Founder", Val(input), "equity")
   /\ IsNum(Get(Val(input), "equity")))
    => LET e == Val(Get(Val(input), "equity"))
       IN result.success <=> (0 <= e /\ e <= 100)

C11_Witness ==
  /\ op = "safeParse" /\ ent = "Founder"
  /\ input = Obj(With(ValidRecord("Founder"), "equity", Num(100)))
  /\ result.success

(***************************************************************************)
(* C12: a numeric field (Hypothesis.target, Founder.equity, and cliff and  *)
(* period of a Founder's vesting object) whose value is not of numeric     *)
(* type fails validation, also a string that spells a number.              *)
(***************************************************************************)
NumericKeys(X) ==
  CASE X = "Hypothesis" -> {"target"}
    [] X = "Founder" -> {"equity"}
    [] OTHER -> {}

NumericType(v) == Kind(v) \in {"number", "nan"}

C12_NumericFieldsRejectOtherTypes ==
  (op = "safeParse" /\ IsRecord(input)) =>
    /\ \A k \in NumericKeys(ent) :
         ~NumericType(Get(Val(input), k)) => ~result.success
    /\ (ent = "Founder" /\ Kind(Get(Val(input), "vesting")) = "object") =>
         \A k \in {"cliff", "period"} :
           ~NumericType(Get(Val(Get(Val(input), "vesting")), k)) => ~result.success

C12_Witness ==
  /\ op = "safeParse" /\ ent = "Hypothesis"
  /\ input = Obj(With(ValidRecord("Hypothesis"), "target", Str("40")))
  /\ ~result.success

(***************************************************************************)
(* C13: an otherwise valid Hypothesis validates exactly when status is one *)
(* of untested, testing, validated, invalidated; any other value, and a    *)
(* missing status, is rejected.                                            *)
(***************************************************************************)
C13_HypothesisStatusEnum ==
  (/\ op = "safeParse" /\ ent = "Hypothesis" /\ IsRecord(input)
   /\ ValidExcept("Hypothesis", Val(input), "status"))
    => (result.success <=>
          OneOf(Get(Val(input), "status"),
                {"untested", "testing", "validated", "invalidated"}))

C13_Witness ==
  /\ op = "safeParse" /\ ent = "Hypothesis"
  /\ input = Obj(With(ValidRecord("Hypothesis"), "status", Str("invalid")))
  /\ ~result.success

(***************************************************************************)
(* C14: an otherwise valid Founder validates exactly when role is one of   *)
(* ceo, cto, coo, cfo, co-founder.                                         *)
(***************************************************************************)
C14_FounderRoleEnum ==
  (/\ op = "safeParse" /\ ent = "Founder" /\ IsRecord(input)
   /\ ValidExcept("Founder", Val(input), "role"))
    => (result.success <=>
          OneOf(Get(Val(input), "role"), {"ceo", "cto", "coo", "cfo", "co-founder"}))

C14_Witness ==
  /\ op = "safeParse" /\ ent = "Founder"
  /\ input = Obj(With(ValidRecord("Founder"), "role", Str("intern")))
  /\ ~result.success

(***************************************************************************)
(* C15: a Founder valid in its other fields, with vesting present,         *)
(* validates exactly when cliff and period are numbers and schedule is     *)
(* monthly or quarterly; with vesting absent it validates.                 *)
(***************************************************************************)
C15_NestedVesting ==
  (/\ op = "safeParse" /\ ent = "Founder" /\ IsRecord(input)
   /\ ValidExcept("Founder", Val(input), "vesting"))
    => LET v == Get(Val(input), "vesting")
       IN IF Absent(v) THEN result.success
          ELSE result.success <=>
                 /\ Kind(v) = "object"
                 /\ IsNum(Get(Val(v), "cliff"))
                 /\ IsNum(Get(Val(v), "period"))
                 /\ OneOf(Get(Val(v), "schedule"), {"monthly", "quarterly"})

C15_Witness ==
  /\ op = "safeParse" /\ ent = "Founder"
  /\ input = Obj(With(ValidRecord("Founder"), "vesting",
                      Obj([ValidVesting EXCEPT !.schedule = Str("weekly")])))
  /\ ~result.success

(***************************************************************************)
(* C16: an optional field that is absent imposes nothing; one that is      *)
(* present is held to the rule of its type, and a present value breaking   *)
(* that rule fails the record.                                             *)
(***************************************************************************)
C16_OptionalFields ==
  (op = "safeParse" /\ IsRecord(input)) =>
    \A k \in OptionalKeys(ent) :
      ValidExcept(ent, Val(input), k) =>
        LET v == Get(Val(input), k)
        IN result.success <=> (Absent(v) \/ PresentOk(ent, k, v))

C16_Witness ==
  /\ op = "safeParse" /\ ent = "LeanCanvas"
  /\ input = Obj(Without(ValidRecord("LeanCanvas"), "unfairAdvantage"))
  /\ result.success

(***************************************************************************)
(* C17: every record that meets all of X's rules validates, and isX is     *)
(* true on it: the validator rejects a record only on a violated rule.     *)
(***************************************************************************)
AllRules(X, f) == \A k \in DeclaredKeys(X) : KeyOk(X, k, Get(f, k))

C17_AcceptsAllValid ==
  /\ (op = "safeParse" /\ IsRecord(input) /\ AllRules(ent, Val(input)))
       => result.success
  /\ (op = "guard" /\ IsRecord(input) /\ AllRules(ent, Val(input)))
       => result = TRUE

C17_Witness ==
  /\ op = "guard" /\ ent = "JTBD"
  /\ input = Obj(With(ValidRecord("JTBD"), ExtraKey, Num(1)))
  /\ result = TRUE

(***************************************************************************)
(* C18: safeParse returns on every input; what it returns carries a        *)
(* success flag, which is false when the input is malformed.               *)
(***************************************************************************)
C18_ValidatorReturns ==
  op = "safeParse" =>
    /\ "success" \in DOMAIN result
    /\ result.success \in BOOLEAN
    /\ (~IsRecord(input) \/ ~AllRules(ent, Val(input))) => result.success = FALSE

C18_Witness ==
  /\ op = "safeParse" /\ ent = "JTBD" /\ input = Arr(<<>>)
  /\ result.success = FALSE

(***************************************************************************)
(* C19: a validator's result is either a success with a value and no       *)
(* error, or a failure with a non-empty error and no value.                *)
(***************************************************************************)
C19_AllOrNothing ==
  op = "safeParse" =>
    \/ /\ result.success = TRUE
       /\ DOMAIN result = {"success", "data"}
    \/ /\ result.success = FALSE
       /\ DOMAIN result = {"success", "error"}
       /\ Len(result.error) >= 1

C19_Witness ==
  /\ op = "safeParse" /\ ent = "Idea"
  /\ input = Obj(With(ValidRecord("Idea"), "solution", Str("")))
  /\ DOMAIN result = {"success", "error"}

(***************************************************************************)
(* C20: when a record fails validation the error names every declared      *)
(* field that breaks its rule and no field that meets it; likewise for the *)
(* fields of a vesting object and the positions of a sequence.             *)
(***************************************************************************)
\* The paths the error reports.
Paths(err) == {err[i][1] : i \in 1..Len(err)}

FailingKeys(X, f) == {k \in DeclaredKeys(X) : ~KeyOk(X, k, Get(f, k))}

FailingVestingKeys(v) ==
  {k \in {"cliff", "period"} : ~IsNum(Get(Val(v), k))}
  \cup {k \in {"schedule"} : ~OneOf(Get(Val(v), k), {"monthly", "quarterly"})}

FailingPositions(v) == {ToString(i - 1) : i \in {j \in 1..Len(Val(v)) : ~IsStr(Val(v)[j])}}

C20_PerFieldDiagnostics ==
  (op = "safeParse" /\ IsRecord(input) /\ ~result.success) =>
    LET f == Val(input)
        paths == Paths(result.error)
    IN /\ {p[1] : p \in paths} = FailingKeys(ent, f)
       /\ (ent = "Founder" /\ Kind(Get(f, "vesting")) = "object") =>
            {p[2] : p \in {q \in paths : Len(q) = 2 /\ q[1] = "vesting"}}
              = FailingVestingKeys(Get(f, "vesting"))
       /\ \A k \in SeqKeys(ent) :
            Kind(Get(f, k)) = "array" =>
              {p[2] : p \in {q \in paths : Len(q) = 2 /\ q[1] = k}}
                = FailingPositions(Get(f, k))

C20_Witness ==
  /\ op = "safeParse" /\ ent = "Idea"
  /\ input = Obj(With(With(ValidRecord("Idea"), "concept", Null), "solution", Null))
  /\ ~result.success
  /\ {p[1] : p \in Paths(result.error)} = {"concept", "solution"}

(***************************************************************************)
(* C22: a validator or guard call, succeeding or failing, leaves the       *)
(* caller's value as it was, undeclared properties included.               *)
(***************************************************************************)
C22_ValidationLeavesInput ==
  [][op' \in {"safeParse", "guard"} => input' = input]_vars

C22_Witness ==
  /\ op = "safeParse" /\ IsRecord(input)
  /\ ExtraKey \in DOMAIN Val(input)
  /\ result.success
  /\ ExtraKey \notin DOMAIN Val(result.data)

C27_FactoryIdempotent ==
  op = "create" =>
    /\ HasTag(ent, Val(input)) => result = input
    /\ createX(ent, result) = result
    /\ \A Y \in Entities :
         LET again == Val(createX(Y, result))
         IN /\ DOMAIN again = DOMAIN Val(result)
            /\ again["$type"] = Str("https://schema.org.ai/" \o Y)
            /\ \A k \in DOMAIN again \ {"$type"} : again[k] = Val(result)[k]

C27_Witness ==
  /\ op = "create" /\ ent = "StoryBrand"
  /\ HasTag("StoryBrand", Val(input))
  /\ result = input

(***************************************************************************)
(* C28: a record that meets X's rules and carries undeclared properties    *)
(* validates, and the success value holds the declared fields only.        *)
(***************************************************************************)
\* C28 as claimed: each declared field of the success value equals the
\* input's value.
C28_StripsUndeclaredTopLevel ==
  (op = "safeParse" /\ IsRecord(input) /\ result.success) =>
    /\ DOMAIN Val(result.data) = DOMAIN Val(input) \cap DeclaredKeys(ent)
    /\ \A k \in DOMAIN Val(result.data) : Val(result.data)[k] = Val(input)[k]

\* The declared part of a value under property k: a vesting object keeps
\* cliff, period and schedule.
DeclaredPart(k, v) ==
  IF k = "vesting" /\ Kind(v) = "object"
  THEN Obj([j \in DOMAIN Val(v) \cap {"cliff", "period", "schedule"} |-> Val(v)[j]])
  ELSE v

\* C28 as amended: the record validates, and the success value holds the
\* declared fields only, each equal to the input's value but for a vesting
\* object, whose own undeclared properties are dropped as well.
C28_StripsUndeclared ==
  (op = "safeParse" /\ IsRecord(input)) =>
    /\ AllRules(ent, Val(input)) => (result.success /\ isX(ent, input))
    /\ result.success =>
         /\ DOMAIN Val(result.data) = DOMAIN Val(input) \cap DeclaredKeys(ent)
         /\ \A k \in DOMAIN Val(result.data) :
              Val(result.data)[k] = DeclaredPart(k, Val(input)[k])

C28_Witness ==
  /\ op = "safeParse" /\ ent = "Founder"
  /\ input = Obj(With(ValidRecord("Founder"), "vesting",
                      Obj(("extra" :> Num(1)) @@ ValidVesting)))
  /\ result.success
  /\ Val(result.data)["vesting"] = Obj(ValidVesting)

(***************************************************************************)
(* C29: an otherwise valid record with an optional field set to null fails *)
(* validation; with the field omitted or set to undefined it validates.    *)
(***************************************************************************)
C29_NullIsNotAbsence ==
  (op = "safeParse" /\ IsRecord(input)) =>
    \A k \in OptionalKeys(ent) :
      ValidExcept(ent, Val(input), k) =>
        /\ Get(Val(input), k) = Null => ~result.success
        /\ Get(Val(input), k) = Undefined => result.success

C29_Witness ==
  /\ op = "safeParse" /\ ent = "Idea"
  /\ input = Obj(With(ValidRecord("Idea"), "differentiator", Null))
  /\ ~result.success

(***************************************************************************)
(* C30: when XSchema.safeParse(v) succeeds with value w, XSchema.safeParse *)
(* of w succeeds with a value equal to w, and isX(w) is true.              *)
(***************************************************************************)
C30_RevalidationIdempotent ==
  (op = "safeParse" /\ result.success) =>
    /\ safeParse(SchemaOf(ent), result.data) = [success |-> TRUE, data |-> result.data]
    /\ isX(ent, result.data)

C30_Witness ==
  /\ op = "safeParse" /\ ent = "Hypothesis" /\ IsRecord(input)
  /\ ExtraKey \in DOMAIN Val(input)
  /\ result.success
  /\ result.data # input

(***************************************************************************)
(* ICP and Startup: the interfaces, icpToFrame, and the module's exports.  *)
(***************************************************************************)
ICPType == "https://schema.org.ai/ICP"
StartupType == "https://schema.org.ai/Startup"
StartupStatus == {"draft", "validation", "mvp", "growth", "scale"}

FrameKeys == {"as", "at", "are", "using", "to"}

\* Mutant: the last two parts of the frame change places.
icpToFrameSwapped(icp) ==
  LET f == Val(icp)
  IN Val(f["as"]) \o " at " \o Val(f["at"]) \o " are " \o Val(f["are"])
       \o " using " \o Val(f["to"]) \o " to " \o Val(f["using"])

\* `${icp.as} at ${icp.at} are ${icp.are} using ${icp.using} to ${icp.to}`
icpToFrame(icp) ==
  LET f == Val(icp)
  IN Val(f["as"]) \o " at " \o Val(f["at"]) \o " are " \o Val(f["are"])
       \o " using " \o Val(f["using"]) \o " to " \o Val(f["to"])

\* The values the module exports.
Exports ==
  {"icpToFrame"}
    \cup UNION {{X \o "Schema", "is" \o X, "create" \o X} : X \in Entities}

\* The types the module documentation lists.
Types == Entities \cup {"ICP", "Startup"}

\* The names the module documentation gives a type's utilities.
UtilityNames(X) == {X \o "Schema", "is" \o X, "create" \o X}

\* An abrupt completion.
Thrown(e) == <<"thrown", e>>

\* Using a name the module does not export: the import fails to link, or
\* the binding is undefined and the call throws.
MissingExportOutcomes == {Thrown("SyntaxError"), Thrown("TypeError")}

FrameWords == {"", "a", " at ", " to "}

ICPRecord(as, at, are, using, to) ==
  Obj(("$id" :> Str("https://schema.org.ai/icps/icp1"))
      @@ ("$type" :> Str(ICPType))
      @@ ("as" :> Str(as)) @@ ("at" :> Str(at)) @@ ("are" :> Str(are))
      @@ ("using" :> Str(using)) @@ ("to" :> Str(to))
      @@ ("occupation" :> Str("15-1252.00")) @@ ("industry" :> Str("5112")))

FixtureICP ==
  Obj(Without(Without(Val(ICPRecord("Engineers", "Series A startups",
                                    "scaling infrastructure", "Kubernetes",
                                    "handle 10x growth")),
                      "occupation"), "industry"))

ICPVariants(icp) ==
  { icp,
    Obj(With(Val(icp), "$id", Str(""))),
    Obj(With(Val(icp), "$type", Str("Wrong"))),
    Obj(Without(Val(icp), "occupation")),
    Obj(With(Val(icp), "industry", Str("x"))) }

ICPInputs ==
  {FixtureICP}
    \cup UNION { ICPVariants(ICPRecord(as, at, are, using, to)) :
                   as \in FrameWords, at \in FrameWords, are \in FrameWords,
                   using \in FrameWords, to \in FrameWords }

StartupRecord(status) ==
  Obj(("$id" :> Str("https://schema.org.ai/startups/s1"))
      @@ ("$type" :> Str(StartupType))
      @@ ("name" :> Str("Acme Startup"))
      @@ ("status" :> Str(status))
      @@ ("icp" :> Null) @@ ("idea" :> Null) @@ ("businessModel" :> Null)
      @@ ("founders" :> Arr(<<>>)))

StartupInputs == {StartupRecord(st) : st \in StartupStatus \cup {"archived"}}

InitICP ==
  /\ input \in ICPInputs \cup StartupInputs
  /\ op = "none"
  /\ ent = "none"
  /\ result = Undefined

\* icpToFrame(icp), icp an ICP
FrameCall ==
  /\ op = "none"
  /\ IsRecord(input)
  /\ FrameKeys \subseteq DOMAIN Val(input)
  /\ op' = "icpToFrame"
  /\ ent' = "ICP"
  /\ result' = Str(icpToFrame(input))
  /\ UNCHANGED input

\* A call of one of type X's utilities by its documented name.
UtilityCall(X, name) ==
  /\ op = "none"
  /\ name \in UtilityNames(X)
  /\ op' = name
  /\ ent' = X
  /\ IF name \in Exports
       THEN result' = (CASE name = X \o "Schema" -> safeParse(SchemaOf(X), input)
                         [] name = "is" \o X -> isX(X, input)
                         [] OTHER -> createX(X, input))
       ELSE result' \in MissingExportOutcomes
  /\ UNCHANGED input

NextICP ==
  \/ FrameCall
  \/ \E X \in Types : \E name \in UtilityNames(X) : UtilityCall(X, name)
  \/ Discard

SpecICP == InitICP /\ [][NextICP]_vars

(***************************************************************************)
(* C24: icpToFrame(icp) is as, " at ", at, " are ", are, " using ", using, *)
(* " to ", to joined in that order with the field values verbatim, also    *)
(* when a field is empty or holds " at " or " to "; $id, $type, occupation *)
(* and industry do not enter the result.                                   *)
(***************************************************************************)
C24_FrameIsVerbatimJoin ==
  op = "icpToFrame" =>
    LET f == Val(input)
        frame == [k \in FrameKeys |-> f[k]]
    IN /\ result = Str(Val(f["as"]) \o " at " \o Val(f["at"]) \o " are " \o Val(f["are"])
                         \o " using " \o Val(f["using"]) \o " to " \o Val(f["to"]))
       /\ result = Str(icpToFrame(Obj(frame)))

C24_Witness ==
  /\ op = "icpToFrame"
  /\ input = Obj(With(Val(ICPRecord("", " at ", "a", " to ", "")), "$type", Str("Wrong")))
  /\ result = Str(" at  at  are a using  to  to ")

(***************************************************************************)
(* C25: ICP and Startup each have a validator, a guard and a factory:      *)
(* calling ICPSchema.safeParse, isICP, createICP, StartupSchema.safeParse, *)
(* isStartup or createStartup completes with a result.                     *)
(***************************************************************************)
C25_ICPAndStartupUtilities ==
  (ent \in {"ICP", "Startup"} /\ op \in UtilityNames(ent)) => Kind(result) # "thrown"

(***************************************************************************)
(* Several callers: each call is a step that takes its argument and a      *)
(* later step that returns; steps of different callers interleave, and all *)
(* callers pass the same record.                                           *)
(***************************************************************************)
NumCallers == 2
Callers == 1..NumCallers

ConcEntities == {"Idea", "Founder"}
ConcOps == {"safeParse", "guard", "create", "icpToFrame"}

\* The operation o of type X applied to v.
Apply(o, X, v) ==
  CASE o = "safeParse" -> safeParse(SchemaOf(X), v)
    [] o = "guard" -> isX(X, v)
    [] o = "create" -> createX(X, v)
    [] o = "icpToFrame" -> Str(icpToFrame(v))

\* The signature of o admits v.
Admits(o, X, v) ==
  CASE o = "create" -> X \in ConcEntities /\ Kind(v) = "object"
    [] o = "icpToFrame" -> X = "ICP" /\ Kind(v) = "object" /\ FrameKeys \subseteq DOMAIN Val(v)
    [] OTHER -> X \in ConcEntities

ConcInputs ==
  { Null,
    Obj(Without(ValidRecord("Idea"), "$type")),
    Obj(With(ValidRecord("Idea"), ExtraKey, Num(1))),
    Obj(With(ValidRecord("Founder"), "vesting", Obj(("extra" :> Num(1)) @@ ValidVesting))),
    FixtureICP }

\* A call: its operation, its type, the argument as it was when the call
\* was made, whether it has returned, and the value returned.
CallRecord(o, X, arg, done, value) ==
  [op |-> o, ent |-> X, arg |-> arg, done |-> done, value |-> value]

InitConc ==
  /\ input \in ConcInputs
  /\ op = [c \in Callers |-> "none"]
  /\ ent = [c \in Callers |-> "none"]
  /\ result = [c \in Callers |-> <<>>]

\* Caller c makes a call; result[c] holds the argument it was made with.
Call(c, o, X) ==
  /\ op[c] = "none"
  /\ Admits(o, X, input)
  /\ op' = [op EXCEPT ![c] = o]
  /\ ent' = [ent EXCEPT ![c] = X]
  /\ result' = [result EXCEPT ![c] = <<CallRecord(o, X, input, FALSE, Undefined)>>]
  /\ UNCHANGED input

\* Mutant: the guard keeps a flag between calls, and answers the opposite
\* once a guard call has returned.
ReturnToggling(c) ==
  /\ op[c] # "none"
  /\ LET seen == \E d \in Callers \ {c} :
                   result[d] # <<>> /\ result[d][1].done /\ result[d][1].op = "guard"
         value == IF op[c] = "guard" /\ seen
                  THEN ~Apply(op[c], ent[c], input)
                  ELSE Apply(op[c], ent[c], input)
     IN result' = [result EXCEPT ![c] =
                     <<CallRecord(op[c], ent[c], result[c][1].arg, TRUE, value)>>]
  /\ op' = [op EXCEPT ![c] = "none"]
  /\ ent' = [ent EXCEPT ![c] = "none"]
  /\ UNCHANGED input

\* Mutant: the factory stamps $type on the record it was given.
ReturnAssigning(c) ==
  /\ op[c] # "none"
  /\ LET value == Apply(op[c], ent[c], input)
     IN /\ result' = [result EXCEPT ![c] =
                        <<CallRecord(op[c], ent[c], result[c][1].arg, TRUE, value)>>]
        /\ input' = IF op[c] = "create" THEN value ELSE input
  /\ op' = [op EXCEPT ![c] = "none"]
  /\ ent' = [ent EXCEPT ![c] = "none"]

\* The call of caller c returns: the operation reads the record it was
\* given and nothing else.
Return(c) ==
  /\ op[c] # "none"
  /\ LET value == Apply(op[c], ent[c], input)
     IN result' = [result EXCEPT ![c] =
                     <<CallRecord(op[c], ent[c], result[c][1].arg, TRUE, value)>>]
  /\ op' = [op EXCEPT ![c] = "none"]
  /\ ent' = [ent EXCEPT ![c] = "none"]
  /\ UNCHANGED input

\* With no call in progress, caller c passes on the record a factory
\* returned to it; later calls are made on that record.
PassOn(c) ==
  /\ \A d \in Callers : op[d] = "none"
  /\ result[c] # <<>>
  /\ result[c][1].op = "create"
  /\ result[c][1].value # input
  /\ input' = result[c][1].value
  /\ UNCHANGED <<op, ent, result>>

NextConc ==
  \/ \E c \in Callers : \E o \in ConcOps : \E X \in ConcEntities \cup {"ICP"} : Call(c, o, X)
  \/ \E c \in Callers : Return(c)
  \/ \E c \in Callers : PassOn(c)

SpecConc == InitConc /\ [][NextConc]_vars

\* The callers whose last call has returned.
Returned == {c \in Callers : result[c] # <<>> /\ result[c][1].done}

C23_InterleavingIsInvisible ==
  \A c \in Returned :
    LET e == result[c][1]
    IN e.op \in {"safeParse", "guard", "create"} => e.value = Apply(e.op, e.ent, e.arg)

C23_Witness ==
  /\ op[1] = "guard" /\ ent[1] = "Idea"
  /\ 2 \in Returned
  /\ result[2][1].op = "create" /\ result[2][1].ent = "Idea"
  /\ result[2][1].arg = input
  /\ result[2][1].value # input
  /\ result[1][1].arg = input

====
